---- MODULE Spec2Model ----
(***************************************************************************)
(* Model of src/src/main.rs: a command-line program that loads a YAML      *)
(* configuration (rpc_url, wallets), spawns one tokio task per wallet that *)
(* POSTs a JSON-RPC getBalance request, joins all tasks, prints one        *)
(* warning line per failed wallet and then the report of the balances.     *)
(*                                                                         *)
(* Numbers wider than TLC's integers (u64 lamports, the 53-bit significand *)
(* of an f64) are kept as four 16-bit limbs, most significant first, and   *)
(* computed on as sequences of bits, least significant first.              *)
(***************************************************************************)
EXTENDS Integers, Sequences, FiniteSets

\* ------------------------------------------------------------------ bounds

\* Largest number of entries in the wallets list of the configuration file.
MaxWallets == 2

\* ------------------------------------------------------ program constants

\* main.rs:122  1 SOL = 1_000_000_000 lamports (the f64 literal 1_000_000_000.0)
LAMPORTS_PER_SOL == 1000000000

\* Width of an f64 significand (IEEE 754 binary64), hidden bit included.
F64_MANTISSA_DIGITS == 53

None == <<>>
Some(x) == <<x>>

\* ---------------------------------------------------- wide natural numbers
\* A wide number is computed on as its bits, least significant first; the
\* carrying operations (division, multiplication, subtraction) go digit by
\* digit in base 256, least significant digit first.

RECURSIVE Pow2(_)
Pow2(n) == IF n = 0 THEN 1 ELSE 2 * Pow2(n - 1)

\* The value of a short sequence of bits.
RECURSIVE BitsValue(_)
BitsValue(b) == IF b = <<>> THEN 0 ELSE Head(b) + 2 * BitsValue(Tail(b))

Zeros(n) == [k \in 1..n |-> 0]

\* Bits k..k+n-1 of b, zero beyond its length.
Window(b, k, n) == [j \in 1..n |-> IF k + j - 1 <= Len(b) THEN b[k + j - 1] ELSE 0]

\* The bits of a number given as 16-bit limbs, most significant limb first.
BitsOfLimbs(v) ==
  [k \in 1..(16 * Len(v)) |-> (v[Len(v) - ((k - 1) \div 16)] \div Pow2((k - 1) % 16)) % 2]

\* The four limbs (most significant first) of a number of at most 64 bits.
LimbsOfBits(b) ==
  [j \in 1..4 |-> BitsValue(Window(b, 1 + 16 * (4 - j), 16))]

\* The base-256 digits of a number given in bits, and back.
DigitsOfBits(b) ==
  [j \in 1..((Len(b) + 7) \div 8) |-> BitsValue(Window(b, 8 * (j - 1) + 1, 8))]
BitsOfDigits(dg) ==
  [k \in 1..(8 * Len(dg)) |-> (dg[((k - 1) \div 8) + 1] \div Pow2((k - 1) % 8)) % 2]

\* Position of the most significant set bit, 0 for zero.
Msb(b) ==
  IF \A k \in 1..Len(b) : b[k] = 0 THEN 0
  ELSE CHOOSE k \in 1..Len(b) : b[k] = 1 /\ \A j \in (k + 1)..Len(b) : b[j] = 0

ShiftLeft(b, n) == Zeros(n) \o b

\* b + 1, one bit longer: the trailing ones become zeros, the zero above a one.
Increment(b) ==
  LET z == IF \A k \in 1..Len(b) : b[k] = 1 THEN Len(b) + 1
           ELSE CHOOSE k \in 1..Len(b) : b[k] = 0 /\ \A j \in 1..(k - 1) : b[j] = 1
  IN  [k \in 1..(Len(b) + 1) |->
         IF k < z THEN 0 ELSE IF k = z THEN 1 ELSE IF k <= Len(b) THEN b[k] ELSE 0]

\* Long division in base 256 by a divisor d below 2^22: the digits dg[1..k] are
\* still to be brought down, r is the remainder and q the quotient of the digits
\* above k. The quotient digits and the remainder.
RECURSIVE LongDivide(_, _, _, _, _)
LongDivide(dg, k, r, d, q) ==
  IF k = 0 THEN [q |-> q, r |-> r]
  ELSE LongDivide(dg, k - 1, (256 * r + dg[k]) % d, d,
                  <<(256 * r + dg[k]) \div d>> \o q)

\* The odd part of a positive number and the power of two it is multiplied by.
RECURSIVE OddPart(_)
OddPart(n) == IF n % 2 = 1 THEN n ELSE OddPart(n \div 2)
RECURSIVE TwoExponent(_)
TwoExponent(n) == IF n % 2 = 1 THEN 0 ELSE 1 + TwoExponent(n \div 2)
RECURSIVE BitLength(_)
BitLength(n) == IF n = 0 THEN 0 ELSE 1 + BitLength(n \div 2)

\* ------------------------------------------------------------------- f64

\* A finite non-negative f64 is [m, e]: the value m * 2^e, where m is the 53-bit
\* significand as limbs, with its top bit set unless the value is zero (e = 0).
F64Zero == [m |-> <<0, 0, 0, 0>>, e |-> 0]

\* IEEE 754 round-to-nearest, ties-to-even, of the number b * 2^e (b in bits),
\* where sticky says that the exact number is a little more than b * 2^e.
RoundToF64(b, e, sticky) ==
  LET p == Msb(b)
      s == p - F64_MANTISSA_DIGITS
  IN  IF p = 0 THEN F64Zero
      ELSE IF s <= 0
        THEN [m |-> LimbsOfBits(ShiftLeft(Window(b, 1, p), -s)), e |-> e + s]
      ELSE LET kept == Window(b, s + 1, F64_MANTISSA_DIGITS)
               half == b[s] = 1
               more == sticky \/ \E k \in 1..(s - 1) : b[k] = 1
               up == half /\ (more \/ kept[1] = 1)
               sum == IF up THEN Increment(kept) ELSE kept
           IN  IF Msb(sum) > F64_MANTISSA_DIGITS
                 THEN [m |-> LimbsOfBits(Window(sum, 2, F64_MANTISSA_DIGITS)),
                       e |-> e + s + 1]
                 ELSE [m |-> LimbsOfBits(sum), e |-> e + s]

\* main.rs:122  `balance.value as f64`: the u64 rounded to the nearest f64.
U64AsF64(value) == RoundToF64(BitsOfLimbs(value), 0, FALSE)

\* main.rs:122  `x / d` in f64 for a divisor d that is a whole number with an
\* odd part below 2^22: the exact quotient rounded once, as IEEE 754 division is. The
\* significand is divided by the odd part of d to 3 bits more than an f64
\* holds, the remainder of the division being the sticky bit.
F64DivideBy(x, d) ==
  IF x = F64Zero THEN F64Zero
  ELSE LET odd == OddPart(d)
           extra == BitLength(odd) + 3
           num == DigitsOfBits(ShiftLeft(BitsOfLimbs(x.m), extra))
           quo == LongDivide(num, Len(num), 0, odd, <<>>)
       IN  RoundToF64(BitsOfDigits(quo.q), x.e - TwoExponent(d) - extra, quo.r # 0)

\* Fault: the balance divided by 1_000_000.0, a scale three digits short.
sol_balance_wrong_scale(value) == F64DivideBy(U64AsF64(value), 1000000)

\* main.rs:122  let sol_balance = balance.value as f64 / 1_000_000_000.0;
sol_balance(value) == F64DivideBy(U64AsF64(value), LAMPORTS_PER_SOL)

\* ------------------------------------------------------------ the inputs

\* Largest number of wallets in the runs that go through many balances.
MaxQueried == 1

\* The wallet addresses a configuration file may list (an address may repeat).
Addresses == {"WalletA", "WalletB"}

RpcUrl == "http://rpc"

\* u64 lamport balances, as limbs: 1 and u64::MAX.
Lamports == {<<0, 0, 0, 1>>, <<65535, 65535, 65535, 65535>>}

\* More of them: 0, 1, 2, 3, 7, 5^9, 123_456_789, 999_999_999, 1_000_000_000,
\* 1_000_000_001, 2_000_000_000, 3_000_000_000, 2^32 - 1, 2^32, 10^18,
\* 2^53 - 1, 2^53, 2^53 + 1, 2^53 + 3, 2^63, 2^63 + 1025, three 64-bit numbers
\* without pattern, u64::MAX - 1 and u64::MAX.
LamportsWide ==
  { <<0, 0, 0, 0>>, <<0, 0, 0, 1>>, <<0, 0, 0, 2>>, <<0, 0, 0, 3>>, <<0, 0, 0, 7>>,
    <<0, 0, 29, 52581>>, <<0, 0, 1883, 52501>>, <<0, 0, 15258, 51711>>,
    <<0, 0, 15258, 51712>>, <<0, 0, 15258, 51713>>, <<0, 0, 30517, 37888>>,
    <<0, 0, 45776, 24064>>, <<0, 0, 65535, 65535>>, <<0, 1, 0, 0>>,
    <<3552, 46771, 42852, 0>>, <<31, 65535, 65535, 65535>>, <<32, 0, 0, 0>>,
    <<32, 0, 0, 1>>, <<32, 0, 0, 3>>, <<32768, 0, 0, 0>>, <<32768, 0, 0, 1025>>,
    <<37303, 22602, 8805, 45557>>, <<52577, 15920, 55537, 27359>>,
    <<4135, 50385, 50054, 48068>>, <<65535, 65535, 65535, 65534>>,
    <<65535, 65535, 65535, 65535>> }

\* main.rs:41-45  the RpcError objects the endpoint may answer with.
RpcErrors == {[code |-> -32602, message |-> "Invalid param"]}

RECURSIVE SeqsUpTo(_, _)
SeqsUpTo(S, n) ==
  IF n = 0 THEN {<<>>}
  ELSE LET shorter == SeqsUpTo(S, n - 1)
       IN  shorter \cup {Append(w, a) : w \in {v \in shorter : Len(v) = n - 1}, a \in S}

\* main.rs:11-15  the Config values a file may deserialize to, with at most n
\* wallets.
Configs(n) == [rpc_url : {RpcUrl}, wallets : SeqsUpTo(Addresses, n)]

\* The file at args.config: it cannot be opened, or it opens and its content
\* does not deserialize to a Config (doc = None), or it deserializes to doc.
Files(n) ==
  {[opens |-> FALSE, doc |-> None], [opens |-> TRUE, doc |-> None]}
    \cup {[opens |-> TRUE, doc |-> Some(c)] : c \in Configs(n)}

\* main.rs:17-26  the RpcResponse values a body may deserialize to: result and
\* error are both optional, and each combination of them is possible. The
\* balances come from pool; those beside an error, which are not read, from
\* the few of Lamports.
RpcResponses(pool) ==
  [result : {None} \cup {Some([value |-> v]) : v \in pool}, error : {None}]
    \cup [result : {None} \cup {Some([value |-> v]) : v \in pool \cap Lamports},
          error : {Some(e) : e \in RpcErrors}]

\* What the network does with one request: the request fails ("transport"), or
\* a response arrives whose body is no RpcResponse ("unparseable"), or one
\* whose body deserializes to `response`.
Replies(pool) ==
  {[kind |-> "transport", response |-> None], [kind |-> "unparseable", response |-> None]}
    \cup {[kind |-> "response", response |-> Some(r)] : r \in RpcResponses(pool)}

Pending == [kind |-> "pending", response |-> None]
Panicked == [kind |-> "panic", response |-> None]

\* ------------------------------------------------------------- the results

Ok(x) == [ok |-> TRUE, val |-> x]
Err(x) == [ok |-> FALSE, val |-> x]

\* An anyhow error: the format string of its outermost message and its arguments.
Error(fmt, args) == [fmt |-> fmt, args |-> args]

\* Fault: a missing result read as the default Balance, value 0, in place of
\* the error (unwrap_or_default for with_context(..)?).
get_single_balance_default(wallet, reply) ==
  IF reply.kind = "transport"
    THEN Err(Error("Failed to request balance for wallet: {}", <<wallet>>))
  ELSE IF reply.kind = "unparseable"
    THEN Err(Error("Failed to parse response for wallet: {}", <<wallet>>))
  ELSE LET rpc_response == reply.response[1]
       IN  IF rpc_response.error # None
             THEN Err(Error("RPC error for wallet {}: {} (code: {})",
                            <<wallet, rpc_response.error[1].message,
                              rpc_response.error[1].code>>))
           ELSE IF rpc_response.result = None
             THEN Ok([address |-> wallet, balance |-> F64Zero])
           ELSE Ok([address |-> wallet,
                    balance |-> sol_balance(rpc_response.result[1].value)])

\* Fault: the result looked at before the error, so that a response holding
\* both yields a balance.
get_single_balance_result_first(wallet, reply) ==
  IF reply.kind = "transport"
    THEN Err(Error("Failed to request balance for wallet: {}", <<wallet>>))
  ELSE IF reply.kind = "unparseable"
    THEN Err(Error("Failed to parse response for wallet: {}", <<wallet>>))
  ELSE LET rpc_response == reply.response[1]
       IN  IF rpc_response.result # None
             THEN Ok([address |-> wallet,
                      balance |-> sol_balance(rpc_response.result[1].value)])
           ELSE IF rpc_response.error # None
             THEN Err(Error("RPC error for wallet {}: {} (code: {})",
                            <<wallet, rpc_response.error[1].message,
                              rpc_response.error[1].code>>))
           ELSE Err(Error("No balance result for wallet: {}", <<wallet>>))

\* main.rs:95-128  get_single_balance, as a function of the wallet and of what
\* the network does with the request.
get_single_balance(wallet, reply) ==
  IF reply.kind = "transport"
    THEN Err(Error("Failed to request balance for wallet: {}", <<wallet>>))
  ELSE IF reply.kind = "unparseable"
    THEN Err(Error("Failed to parse response for wallet: {}", <<wallet>>))
  ELSE LET rpc_response == reply.response[1]
       IN  IF rpc_response.error # None
             THEN Err(Error("RPC error for wallet {}: {} (code: {})",
                            <<wallet, rpc_response.error[1].message,
                              rpc_response.error[1].code>>))
           ELSE IF rpc_response.result = None
             THEN Err(Error("No balance result for wallet: {}", <<wallet>>))
           ELSE Ok([address |-> wallet,
                    balance |-> sol_balance(rpc_response.result[1].value)])

\* The JoinError of a task that panicked.
JoinError == Error("task panicked", <<>>)

\* --------------------------------------------------------------- the state

VARIABLES
  file,       \* the file at args.config (an input, never written)
  ledger,     \* the balances the RPC endpoint may answer with (never written)
  pc,         \* where main is
  config,     \* main.rs:69   Option<Config>: None until load_config returns it
  tasks,      \* main.rs:132  the spawned tasks, in spawn order
  net,        \* per task: what the network (or a panic) did to it so far
  calls,      \* per task: how many times get_single_balance was entered
  posts,      \* per task: how many HTTP requests were sent
  completed,  \* the finished tasks join_all has yet to return, in the order
              \* they finished
  overtaken,  \* whether some task finished before a task spawned before it
  results,    \* main.rs:147  the Vec join_all returns
  i,          \* main.rs:151  the index of the next result to process (from 1)
  balances,   \* main.rs:150  the Vec<WalletBalance> being filled, then returned
  printed,    \* main.rs:76   how many of main's balances have been printed
  stdout,     \* the lines written to standard output
  exit        \* Option: the process's exit code once main has returned

vars ==
  <<file, ledger, pc, config, tasks, net, calls, posts, completed, overtaken, results, i,
    balances, printed, stdout, exit>>

\* A line of standard output: the format string of its println! and its arguments.
Line(fmt, args) == [fmt |-> fmt, args |-> args]

Wallets == config[1].wallets

\* The program starts on one of `files`, against an endpoint answering from pool.
Start(files, pool) ==
  /\ file \in files
  /\ ledger = pool
  /\ pc = "load_config"
  /\ config = None
  /\ tasks = <<>>
  /\ net = <<>>
  /\ calls = <<>>
  /\ posts = <<>>
  /\ completed = <<>>
  /\ overtaken = FALSE
  /\ results = <<>>
  /\ i = 1
  /\ balances = <<>>
  /\ printed = 0
  /\ stdout = <<>>
  /\ exit = None

Init == Start(Files(MaxWallets), Lamports)

\* Runs with few wallets and many balances.
InitBalances == Start(Files(MaxQueried), LamportsWide)

\* ------------------------------------------------------------------- main

\* Fault: a content that does not deserialize read as the default Config, with
\* no wallets (unwrap_or_default for with_context(..)?).
load_config_default(f) ==
  IF ~f.opens THEN Err(Error("Failed to open config file: {:?}", <<"path">>))
  ELSE IF f.doc = None THEN Ok([rpc_url |-> "", wallets |-> <<>>])
  ELSE Ok(f.doc[1])

\* main.rs:84-92  load_config: the file opens and its content deserializes.
load_config(f) ==
  IF ~f.opens THEN Err(Error("Failed to open config file: {:?}", <<"path">>))
  ELSE IF f.doc = None THEN Err(Error("Failed to parse config file", <<>>))
  ELSE Ok(f.doc[1])

\* main.rs:69  let config = load_config(&args.config)?;
LoadConfig ==
  /\ pc = "load_config"
  /\ IF load_config(file).ok
       THEN /\ config' = Some(load_config(file).val)
            /\ pc' = "spawn"
            /\ exit' = exit
       ELSE /\ pc' = "exited"
            /\ exit' = Some(1)
            /\ config' = config
  /\ UNCHANGED <<file, ledger, tasks, net, calls, posts, completed, overtaken, results, i, balances,
                 printed, stdout>>

\* main.rs:134-144  one turn of the loop: tokio::spawn a task for the next wallet.
Spawn ==
  /\ pc = "spawn"
  /\ Len(tasks) < Len(Wallets)
  /\ tasks' = Append(tasks, [rpc_url |-> config[1].rpc_url,
                             wallet_clone |-> Wallets[Len(tasks) + 1],
                             st |-> "spawned",
                             output |-> None])
  /\ net' = Append(net, Pending)
  /\ calls' = Append(calls, 0)
  /\ posts' = Append(posts, 0)
  /\ UNCHANGED <<file, ledger, pc, config, completed, overtaken, results, i, balances, printed, stdout,
                 exit>>

\* Fault: the loop over the wallets ends one wallet early.
AwaitJoinAllEarly ==
  /\ pc = "spawn"
  /\ Len(tasks) >= Len(Wallets) - 1
  /\ pc' = "join_all"
  /\ UNCHANGED <<file, ledger, config, tasks, net, calls, posts, completed, overtaken,
                 results, i, balances, printed, stdout, exit>>

\* main.rs:134,147  the loop is over: main starts to await join_all(tasks).
AwaitJoinAll ==
  /\ pc = "spawn"
  /\ Len(tasks) = Len(Wallets)
  /\ pc' = "join_all"
  /\ UNCHANGED <<file, ledger, config, tasks, net, calls, posts, completed, overtaken, results, i,
                 balances, printed, stdout, exit>>

\* ------------------------------------------------------------------ tasks

Finish(t, out) ==
  /\ tasks' = [tasks EXCEPT ![t].st = "finished", ![t].output = Some(out)]
  /\ completed' = Append(completed, t)
  /\ overtaken' = (overtaken \/ \E u \in 1..(t - 1) : tasks[u].st # "finished")

\* main.rs:139-140,96-103  the runtime runs task t: it enters get_single_balance
\* and builds the client and the request, or panics while doing so.
TaskCall(t) ==
  /\ tasks[t].st = "spawned"
  /\ calls' = [calls EXCEPT ![t] = @ + 1]
  /\ \/ /\ tasks' = [tasks EXCEPT ![t].st = "called"]
        /\ UNCHANGED <<net, completed, overtaken>>
     \/ /\ Finish(t, Err(JoinError))
        /\ net' = [net EXCEPT ![t] = Panicked]
  /\ UNCHANGED <<file, ledger, pc, config, posts, results, i, balances, printed, stdout, exit>>

\* main.rs:105-109  the request is sent; the send succeeds or fails.
TaskSend(t) ==
  /\ tasks[t].st = "called"
  /\ posts' = [posts EXCEPT ![t] = @ + 1]
  /\ \/ /\ tasks' = [tasks EXCEPT ![t].st = "sent"]
        /\ UNCHANGED <<net, completed, overtaken>>
     \/ \E reply \in {r \in Replies(ledger) : r.kind = "transport"} :
          /\ net' = [net EXCEPT ![t] = reply]
          /\ Finish(t, Ok(get_single_balance(tasks[t].wallet_clone, reply)))
  /\ UNCHANGED <<file, ledger, pc, config, calls, results, i, balances, printed, stdout, exit>>

\* main.rs:111-127  the response arrives and get_single_balance returns.
TaskReceive(t) ==
  /\ tasks[t].st = "sent"
  /\ \E reply \in {r \in Replies(ledger) : r.kind # "transport"} :
       /\ net' = [net EXCEPT ![t] = reply]
       /\ Finish(t, Ok(get_single_balance(tasks[t].wallet_clone, reply)))
  /\ UNCHANGED <<file, ledger, pc, config, calls, posts, results, i, balances, printed,
                 stdout, exit>>

\* ------------------------------------------------------- join and report

\* Fault: the outputs taken from the back of the Vec of handles (tasks.pop()).
join_all_reversed(handles, finished) ==
  [t \in 1..Len(handles) |-> handles[Len(handles) + 1 - t].output[1]]

\* Fault: the outputs in the order the tasks finished in (FuturesUnordered).
join_all_unordered(handles, finished) ==
  [k \in 1..Len(finished) |-> handles[finished[k]].output[1]]

\* main.rs:147  join_all(tasks): the outputs of the handles, in the order of
\* the handles, whatever the order the tasks finished in.
join_all(handles, finished) == [t \in 1..Len(handles) |-> handles[t].output[1]]

\* Fault: the wait ends with the first task to finish, the others being given
\* up (a select over the handles in place of join_all).
JoinAny ==
  /\ pc = "join_all"
  /\ tasks = <<>> \/ \E t \in 1..Len(tasks) : tasks[t].st = "finished"
  /\ results' = [t \in 1..Len(tasks) |->
                   IF tasks[t].st = "finished" THEN tasks[t].output[1]
                   ELSE Err(Error("task panicked", <<>>))]
  /\ completed' = <<>>
  /\ i' = 1
  /\ pc' = "results"
  /\ UNCHANGED <<file, ledger, config, tasks, net, calls, posts, overtaken, balances,
                 printed, stdout, exit>>

\* main.rs:147  join_all(tasks).await returns once every task has finished.
JoinAll ==
  /\ pc = "join_all"
  /\ \A t \in 1..Len(tasks) : tasks[t].st = "finished"
  /\ results' = join_all(tasks, completed)
  /\ completed' = <<>>
  /\ i' = 1
  /\ pc' = "results"
  /\ UNCHANGED <<file, ledger, config, tasks, net, calls, posts, overtaken, balances, printed,
                 stdout, exit>>

\* Fault: the arm for a JoinError prints nothing (Err(_) => {}).
match_result_silent(result, wallet) ==
  IF result.ok /\ result.val.ok
    THEN [push |-> Some(result.val.val), print |-> None]
  ELSE IF result.ok
    THEN [push |-> None,
          print |-> Some([fmt |-> "Error fetching balance for wallet {}: {}",
                          args |-> <<wallet, result.val.val>>])]
  ELSE [push |-> None, print |-> None]

\* main.rs:152-156  the match on one result: the balance to push and the line
\* to print, each or none.
match_result(result, wallet) ==
  IF result.ok /\ result.val.ok
    THEN [push |-> Some(result.val.val), print |-> None]
  ELSE IF result.ok
    THEN [push |-> None,
          print |-> Some(Line("Error fetching balance for wallet {}: {}",
                              <<wallet, result.val.val>>))]
  ELSE [push |-> None,
        print |-> Some(Line("Task error for wallet {}: {}", <<wallet, result.val>>))]

\* Fault: a failed result ends get_wallet_balances with the error (a `?` on
\* the result), and main with exit code 1.
ProcessResultFailFast ==
  /\ pc = "results"
  /\ i <= Len(results)
  /\ IF results[i].ok /\ results[i].val.ok
       THEN /\ balances' = Append(balances, results[i].val.val)
            /\ i' = i + 1
            /\ UNCHANGED <<pc, exit>>
       ELSE /\ pc' = "exited"
            /\ exit' = Some(1)
            /\ UNCHANGED <<balances, i>>
  /\ UNCHANGED <<file, ledger, config, tasks, net, calls, posts, completed, overtaken,
                 results, printed, stdout>>

\* main.rs:151-157  one turn of the loop over results.
ProcessResult ==
  /\ pc = "results"
  /\ i <= Len(results)
  /\ balances' = balances \o match_result(results[i], Wallets[i]).push
  /\ stdout' = stdout \o match_result(results[i], Wallets[i]).print
  /\ i' = i + 1
  /\ UNCHANGED <<file, ledger, pc, config, tasks, net, calls, posts, completed, overtaken, results,
                 printed, exit>>

\* main.rs:159,72,75  get_wallet_balances returns Ok(balances) and main prints
\* the count line.
ReturnBalances ==
  /\ pc = "results"
  /\ i > Len(results)
  /\ stdout' = Append(stdout, Line("Balances for {} wallets:", <<Len(balances)>>))
  /\ printed' = 0
  /\ pc' = "report"
  /\ UNCHANGED <<file, ledger, config, tasks, net, calls, posts, completed, overtaken, results, i,
                 balances, exit>>

\* main.rs:76-78  one turn of the loop over balances.
PrintBalance ==
  /\ pc = "report"
  /\ printed < Len(balances)
  /\ stdout' = Append(stdout,
                      Line("{}: {} SOL", <<balances[printed + 1].address,
                                          balances[printed + 1].balance>>))
  /\ printed' = printed + 1
  /\ UNCHANGED <<file, ledger, pc, config, tasks, net, calls, posts, completed, overtaken, results, i,
                 balances, exit>>

\* main.rs:80  Ok(())
Exit ==
  /\ pc = "report"
  /\ printed = Len(balances)
  /\ pc' = "exited"
  /\ exit' = Some(0)
  /\ UNCHANGED <<file, ledger, config, tasks, net, calls, posts, completed, overtaken, results, i,
                 balances, printed, stdout>>

Next ==
  \/ LoadConfig
  \/ Spawn
  \/ AwaitJoinAll
  \/ \E t \in 1..Len(tasks) : TaskCall(t)
  \/ \E t \in 1..Len(tasks) : TaskSend(t)
  \/ \E t \in 1..Len(tasks) : TaskReceive(t)
  \/ JoinAll
  \/ ProcessResult
  \/ ReturnBalances
  \/ PrintBalance
  \/ Exit

Spec == Init /\ [][Next]_vars

SpecBalances == InitBalances /\ [][Next]_vars

\* ------------------------------------------------------- the properties
\* They are stated on what goes in (file, net: what the network and the
\* runtime did to each task) and on what comes out (stdout, exit, calls, posts).

\* The reply gives a balance: a response with a result and no error.
Fetched(reply) ==
  /\ reply.kind = "response"
  /\ reply.response[1].result # None
  /\ reply.response[1].error = None

\* The task failed: it panicked, or its request did, or the reply gives no balance.
Failed(reply) == reply.kind # "pending" /\ ~Fetched(reply)

\* The reply parses and holds neither a result nor an error.
Empty(reply) ==
  /\ reply.kind = "response"
  /\ reply.response[1].result = None
  /\ reply.response[1].error = None

Entries == [t \in 1..Len(net) |-> t]

\* The entries of the wallets list whose fetch succeeded, and failed, in the
\* order of the list.
Succeeding == SelectSeq(Entries, LAMBDA t : Fetched(net[t]))
Failing == SelectSeq(Entries, LAMBDA t : Failed(net[t]))

CountFmt == "Balances for {} wallets:"
BalanceFmt == "{}: {} SOL"
WarningFmts ==
  {"Error fetching balance for wallet {}: {}", "Task error for wallet {}: {}"}

BalanceLines == SelectSeq(stdout, LAMBDA l : l.fmt = BalanceFmt)
WarningLines == SelectSeq(stdout, LAMBDA l : l.fmt \in WarningFmts)
CountLines == SelectSeq(stdout, LAMBDA l : l.fmt = CountFmt)
ReportLines == SelectSeq(stdout, LAMBDA l : l.fmt \in {CountFmt, BalanceFmt})

\* The balance of a succeeding entry's reply, in SOL.
BalanceOf(t) == sol_balance(net[t].response[1].result[1].value)

\* The balance line of a succeeding entry: its address in the wallets list and
\* its balance.
LineOf(t) == [fmt |-> BalanceFmt, args |-> <<Wallets[t], BalanceOf(t)>>]

Valid == file.opens /\ file.doc # None

\* join_all has returned.
Joined == config # None /\ pc \in {"results", "report", "exited"}

\* C1: the successful results returned by get_wallet_balances and the balance
\* lines main prints are in the order of their entries in the wallets list,
\* whatever order the fetches complete in: the k-th of them is that of the k-th
\* succeeding entry, so of two succeeding entries the earlier one's comes first.
C1_InputOrder ==
  config # None =>
    /\ Len(balances) <= Len(Succeeding)
    /\ \A k \in 1..Len(balances) :
         /\ balances[k].address = Wallets[Succeeding[k]]
         /\ balances[k].balance = BalanceOf(Succeeding[k])
    /\ Len(BalanceLines) <= Len(balances)
    /\ \A k \in 1..Len(BalanceLines) : BalanceLines[k] = LineOf(Succeeding[k])
    /\ pc = "exited" => Len(BalanceLines) = Len(Succeeding)

\* Two entries succeeded with different lines, the second finished first, and
\* the report is out.
C1_Witness ==
  /\ pc = "exited"
  /\ config # None
  /\ Len(Wallets) = 2
  /\ overtaken
  /\ Len(BalanceLines) = 2
  /\ BalanceLines[1] # BalanceLines[2]
  /\ BalanceLines[1].args[1] = Wallets[1]

\* C2: once the results are processed, every failing entry (transport error,
\* unparseable body, RPC error, missing result, crashed task) has exactly one
\* warning line, naming its address, and is not in the report, and every
\* succeeding entry is in the report.
C2_FailureIsolation ==
  (config # None /\ pc \in {"report", "exited"}) =>
    /\ Len(WarningLines) = Len(Failing)
    /\ \A k \in 1..Len(WarningLines) : WarningLines[k].args[1] = Wallets[Failing[k]]
    /\ Len(balances) = Len(Succeeding)
    /\ \A k \in 1..Len(balances) : balances[k].address = Wallets[Succeeding[k]]
    /\ CountLines = <<[fmt |-> CountFmt, args |-> <<Len(Succeeding)>>]>>
    /\ pc = "exited" =>
         /\ Len(BalanceLines) = Len(Succeeding)
         /\ \A k \in 1..Len(BalanceLines) :
              BalanceLines[k].args[1] = Wallets[Succeeding[k]]

\* The first entry's task crashed, the second entry succeeded; the report is out.
C2_Witness ==
  /\ pc = "exited"
  /\ config # None
  /\ Len(Wallets) = 2
  /\ net[1].kind = "panic"
  /\ Fetched(net[2])
  /\ Len(WarningLines) = 1
  /\ Len(BalanceLines) = 1

\* C3: while a launched task is still running, get_wallet_balances has no
\* results, has printed nothing and has returned nothing; after join_all all
\* the N tasks are launched and finished, each by its own panic or reply: none
\* is cancelled.
C3_JoinAll ==
  /\ (\E t \in 1..Len(tasks) : tasks[t].st # "finished") =>
       /\ pc \in {"spawn", "join_all"}
       /\ results = <<>>
       /\ balances = <<>>
       /\ stdout = <<>>
       /\ exit = None
  /\ Joined =>
       /\ Len(tasks) = Len(Wallets)
       /\ \A t \in 1..Len(tasks) : tasks[t].st = "finished"
       /\ Len(results) = Len(Wallets)
  /\ \A t \in 1..Len(tasks) : tasks[t].st = "finished" <=> net[t].kind # "pending"

\* main awaits join_all, one task has failed and another is still running;
\* nothing is printed.
C3_Witness ==
  /\ pc = "join_all"
  /\ \E t, u \in 1..Len(tasks) :
       /\ Failed(net[t])
       /\ tasks[u].st \in {"spawned", "called", "sent"}
  /\ stdout = <<>>

\* C4: get_single_balance is entered at most once per entry; all the N tasks are
\* launched, one per entry and for that entry's address, before join_all is
\* awaited; once join_all has returned it has been entered exactly once per
\* entry; with no entries no fetch is made and the only output is the line
\* "Balances for 0 wallets:".
C4_OncePerEntry ==
  /\ Len(calls) = Len(tasks) /\ Len(posts) = Len(tasks)
  /\ \A t \in 1..Len(tasks) : calls[t] <= 1 /\ posts[t] <= calls[t]
  /\ (config # None /\ pc # "spawn") =>
       /\ Len(tasks) = Len(Wallets)
       /\ \A t \in 1..Len(tasks) : tasks[t].wallet_clone = Wallets[t]
  /\ Joined => \A t \in 1..Len(Wallets) : calls[t] = 1
  /\ (config # None /\ pc = "exited" /\ Wallets = <<>>) =>
       /\ stdout = <<[fmt |-> CountFmt, args |-> <<0>>]>>
       /\ calls = <<>>
       /\ posts = <<>>

\* The same address is listed twice and was fetched twice, once per entry.
C4_Witness ==
  /\ Joined
  /\ Len(Wallets) = 2
  /\ Wallets[1] = Wallets[2]
  /\ calls = <<1, 1>>
  /\ posts = <<1, 1>>

\* C5: if the configuration file cannot be opened or does not parse, the program
\* ends with exit code 1, and no task is launched, no fetch is made, no request
\* is sent and nothing is printed on standard output.
C5_ConfigErrorFatal ==
  ~Valid =>
    /\ pc \in {"load_config", "exited"}
    /\ config = None
    /\ tasks = <<>>
    /\ calls = <<>>
    /\ posts = <<>>
    /\ stdout = <<>>
    /\ pc = "exited" <=> exit = Some(1)
    /\ pc = "load_config" <=> exit = None

\* The file opened, did not parse, and the program has ended.
C5_Witness ==
  /\ file.opens
  /\ file.doc = None
  /\ pc = "exited"
  /\ exit = Some(1)

\* C6: with a configuration that loaded, whatever the outcomes per entry,
\* get_wallet_balances returns the list of the successful results, main prints
\* the report and the program ends with exit code 0; it is never stuck before.
C6_BatchNeverFails ==
  Valid =>
    /\ exit \in {None, Some(0)}
    /\ pc = "exited" <=> exit = Some(0)
    /\ pc # "exited" => ENABLED Next
    /\ pc = "report" => Len(balances) = Len(Succeeding)
    /\ pc = "exited" =>
         /\ CountLines = <<[fmt |-> CountFmt, args |-> <<Len(balances)>>]>>
         /\ Len(BalanceLines) = Len(balances)
         /\ Len(balances) = Len(Succeeding)

\* Both entries failed, and the program ended with exit code 0.
C6_Witness ==
  /\ pc = "exited"
  /\ config # None
  /\ Len(Wallets) = 2
  /\ Len(Failing) = 2
  /\ exit = Some(0)
  /\ ReportLines = <<[fmt |-> CountFmt, args |-> <<0>>]>>

\* The warning lines for address w whose cause is a missing result.
NoResultLines(w) ==
  SelectSeq(stdout,
            LAMBDA l : /\ l.fmt = "Error fetching balance for wallet {}: {}"
                       /\ l.args[1] = w
                       /\ l.args[2].fmt = "No balance result for wallet: {}"
                       /\ l.args[2].args = <<w>>)

\* C7: a response that parses and holds neither result nor error makes
\* get_single_balance fail for that address, and once the results are processed
\* each such entry has a warning line naming its address, and none is in the
\* report.
C7_EmptyResultReported ==
  /\ \A t \in 1..Len(tasks) :
       Empty(net[t]) =>
         /\ tasks[t].output # None
         /\ tasks[t].output[1].ok
         /\ ~tasks[t].output[1].val.ok
         /\ tasks[t].output[1].val.val.fmt = "No balance result for wallet: {}"
         /\ tasks[t].output[1].val.val.args = <<tasks[t].wallet_clone>>
  /\ (config # None /\ pc \in {"report", "exited"}) =>
       /\ \A w \in Addresses :
            Len(NoResultLines(w))
              = Cardinality({t \in 1..Len(net) : Empty(net[t]) /\ Wallets[t] = w})
       /\ Len(balances) + Len(WarningLines) = Len(Wallets)

\* The only entry got a response with neither result nor error; the report is out.
C7_Witness ==
  /\ pc = "exited"
  /\ config # None
  /\ Len(Wallets) = 1
  /\ Empty(net[1])
  /\ Len(NoResultLines(Wallets[1])) = 1
  /\ BalanceLines = <<>>

\* The report a configuration and the outcomes per entry determine.
ExpectedReport ==
  <<[fmt |-> CountFmt, args |-> <<Len(Succeeding)>>]>>
    \o [k \in 1..Len(Succeeding) |-> LineOf(Succeeding[k])]

\* C8: the final report (the count line and the sequence of balance lines) is a
\* function of the configuration and of the outcomes per entry alone, so any two
\* runs with the same ones print the same report, whatever order the fetches
\* complete in.
C8_Deterministic ==
  (config # None /\ pc = "exited") => ReportLines = ExpectedReport

\* Two entries of the same address got different balances, the second finished
\* first, and the report is out.
C8_Witness ==
  /\ pc = "exited"
  /\ config # None
  /\ Len(Wallets) = 2
  /\ Wallets[1] = Wallets[2]
  /\ overtaken
  /\ Len(Succeeding) = 2
  /\ LineOf(1) # LineOf(2)

\* C9: get_single_balance returns a balance exactly for a response with a result
\* and no error; a response with an error fails as the RPC error carrying the
\* remote message and code, also when a result comes with it; a failed request
\* or an unparseable body fails with another error, that of the transport.
C9_ResponseValidation ==
  \A t \in 1..Len(tasks) :
    net[t].kind \in {"transport", "unparseable", "response"} =>
      LET out == tasks[t].output[1]
          wallet == tasks[t].wallet_clone
      IN  /\ tasks[t].output # None
          /\ out.ok
          /\ out.val.ok <=> Fetched(net[t])
          /\ out.val.ok => out.val.val.address = wallet
          /\ (net[t].kind = "response" /\ net[t].response[1].error # None) =>
               /\ ~out.val.ok
               /\ out.val.val.fmt = "RPC error for wallet {}: {} (code: {})"
               /\ out.val.val.args = <<wallet, net[t].response[1].error[1].message,
                                       net[t].response[1].error[1].code>>
          /\ net[t].kind = "transport" =>
               /\ ~out.val.ok
               /\ out.val.val.fmt = "Failed to request balance for wallet: {}"
          /\ net[t].kind = "unparseable" =>
               /\ ~out.val.ok
               /\ out.val.val.fmt = "Failed to parse response for wallet: {}"
          /\ Empty(net[t]) =>
               /\ ~out.val.ok
               /\ out.val.val.fmt = "No balance result for wallet: {}"

\* A task got a response holding both a result and an error, and failed.
C9_Witness ==
  \E t \in 1..Len(tasks) :
    /\ net[t].kind = "response"
    /\ net[t].response[1].result # None
    /\ net[t].response[1].error # None
    /\ tasks[t].output # None
    /\ ~tasks[t].output[1].val.ok

\* ------------------------------------------------- the balance in SOL
\* A balance b = m * 2^e (e <= 0) is compared with v lamports / 10^9 in whole
\* numbers, both sides multiplied by 10^9 * 2^-e: m * 10^9 with v * 2^-e.

\* dg * c + carry in base 256, for a factor c below 2^22.
RECURSIVE MulSmall(_, _, _)
MulSmall(dg, c, carry) ==
  IF dg = <<>> THEN (IF carry = 0 THEN <<>> ELSE MulSmall(<<0>>, c, carry))
  ELSE <<(carry + Head(dg) * c) % 256>>
         \o MulSmall(Tail(dg), c, (carry + Head(dg) * c) \div 256)

\* x <= y for numbers in digits (or in bits).
LeqDigits(x, y) ==
  LET n == IF Len(x) > Len(y) THEN Len(x) ELSE Len(y)
      a == Window(x, 1, n)
      b == Window(y, 1, n)
  IN  \/ a = b
      \/ \E k \in 1..n : a[k] < b[k] /\ \A j \in (k + 1)..n : a[j] = b[j]

\* x - y - borrow in base 256, for x >= y.
RECURSIVE SubDigits(_, _, _)
SubDigits(x, y, borrow) ==
  IF x = <<>> THEN <<>>
  ELSE <<(256 + Head(x) - (IF y = <<>> THEN 0 ELSE Head(y)) - borrow) % 256>>
         \o SubDigits(Tail(x), IF y = <<>> THEN <<>> ELSE Tail(y),
                      IF Head(x) - (IF y = <<>> THEN 0 ELSE Head(y)) - borrow < 0
                        THEN 1 ELSE 0)

AbsDiff(x, y) == IF LeqDigits(x, y) THEN SubDigits(y, x, 0) ELSE SubDigits(x, y, 0)

RECURSIVE DigitsOfNat(_)
DigitsOfNat(n) == IF n = 0 THEN <<>> ELSE <<n % 256>> \o DigitsOfNat(n \div 256)

ScaledBalance(b) ==
  DigitsOfBits(ShiftLeft(
    BitsOfDigits(MulSmall(DigitsOfBits(BitsOfLimbs(b.m)), OddPart(LAMPORTS_PER_SOL), 0)),
    TwoExponent(LAMPORTS_PER_SOL)))

ScaledLamports(v, b) == DigitsOfBits(ShiftLeft(BitsOfLimbs(v), -b.e))

\* |b - v / 10^9|, scaled.
ErrorOf(b, v) == AbsDiff(ScaledBalance(b), ScaledLamports(v, b))

\* b is zero, or its significand has exactly 53 bits: one unit in the last
\* place of b is 2^e.
Normal(b) == b = F64Zero \/ (b.e < 0 /\ b.m[1] \in 16..31)

\* b is v / 10^9 exactly.
Exact(b, v) ==
  /\ LeqDigits(ScaledBalance(b), ScaledLamports(v, b))
  /\ LeqDigits(ScaledLamports(v, b), ScaledBalance(b))

\* b is an f64 nearest to v / 10^9: no more than half a unit in the last place
\* away from it.
Nearest(b, v) ==
  /\ Normal(b)
  /\ LeqDigits(MulSmall(ErrorOf(b, v), 2, 0), DigitsOfNat(LAMPORTS_PER_SOL))

\* |b - v / 10^9| <= 2^-52 * (v / 10^9).
WithinRelative(b, v) ==
  /\ Normal(b)
  /\ LeqDigits(DigitsOfBits(ShiftLeft(BitsOfDigits(ErrorOf(b, v)), 52)),
               ScaledLamports(v, b))

\* The f64 values of 0.0, 1e-9, 1.0 and 18446744073.709551615 (bit patterns
\* 0, 0x3E112E0BE826D695, 0x3FF0000000000000 and 0x42112E0BE826D695), for 0, 1,
\* 1_000_000_000 and u64::MAX lamports.
KnownBalances ==
  { <<<<0, 0, 0, 0>>, [m |-> <<0, 0, 0, 0>>, e |-> 0]>>,
    <<<<0, 0, 0, 1>>, [m |-> <<17, 11787, 59430, 54933>>, e |-> -82]>>,
    <<<<0, 0, 15258, 51712>>, [m |-> <<16, 0, 0, 0>>, e |-> -52]>>,
    <<<<65535, 65535, 65535, 65535>>, [m |-> <<17, 11787, 59430, 54933>>, e |-> -18]>> }

\* The tasks that have returned a balance.
Returned == {t \in 1..Len(tasks) : Fetched(net[t]) /\ tasks[t].output # None}

\* The WalletBalance wb that get_single_balance returned for `wallet` on a
\* response with v lamports is lamports / 1_000_000_000 as exactly as an f64
\* can be: the f64 nearest to the quotient, with the queried address.
IsQuotient(wallet, v, wb) ==
  /\ wb.address = wallet
  /\ Nearest(wb.balance, v)

\* It is lamports rounded to f64 and divided in f64: within a relative error of
\* 2^-52 of the quotient, which it is nearest to for lamports below 2^53, and
\* it is the known f64 for the known lamports, with the queried address.
IsRoundedTwice(wallet, v, wb) ==
  /\ wb.address = wallet
  /\ WithinRelative(wb.balance, v)
  /\ v[1] < 32 => Nearest(wb.balance, v)
  /\ \A known \in KnownBalances : v = known[1] => wb.balance = known[2]
  /\ v \in {<<0, 0, 0, 0>>, <<0, 0, 15258, 51712>>} => Exact(wb.balance, v)

\* C10, as stated: every balance returned equals lamports / 1_000_000_000
\* exactly, for every u64, and carries the queried address. It is read here in
\* the way most favourable to it: the f64 returned is the one nearest to the
\* quotient, so that it is the quotient wherever an f64 can be. (0, 1,
\* 1_000_000_000 and u64::MAX do give the values the claim lists.) Stated on
\* the step in which a task returns its balance.
C10_Exactly ==
  [][\A t \in 1..Len(tasks) :
       (tasks[t].output = None /\ Fetched(net'[t])) =>
         IsQuotient(tasks[t].wallet_clone, net'[t].response[1].result[1].value,
                    tasks'[t].output[1].val.val)]_vars

\* C10, amended: every balance returned carries the queried address and is
\* lamports rounded to the nearest f64, then divided by 1_000_000_000 and
\* rounded to the nearest f64 again: it is within a relative error of 2^-52 of
\* the quotient for every u64, it is the f64 nearest to the quotient (so the
\* quotient itself where an f64 can be) for lamports below 2^53, and 0, 1,
\* 1_000_000_000 and u64::MAX give 0.0, 1e-9, 1.0 and 18446744073.709551615 as
\* f64. Stated on the step in which a task returns its balance.
C10_RoundedTwice ==
  [][\A t \in 1..Len(tasks) :
       (tasks[t].output = None /\ Fetched(net'[t])) =>
         /\ tasks'[t].output # None
         /\ tasks'[t].output[1].ok
         /\ tasks'[t].output[1].val.ok
         /\ IsRoundedTwice(tasks[t].wallet_clone, net'[t].response[1].result[1].value,
                           tasks'[t].output[1].val.val)]_vars

\* A task returned the balance of 2^53 + 3 lamports, which is not the f64 nearest
\* to the quotient, and it is printed.
C10_Witness ==
  /\ pc = "exited"
  /\ Returned = {1}
  /\ net[1].response[1].result[1].value = <<32, 0, 0, 3>>
  /\ IsRoundedTwice(Wallets[1], <<32, 0, 0, 3>>, tasks[1].output[1].val.val)
  /\ ~IsQuotient(Wallets[1], <<32, 0, 0, 3>>, tasks[1].output[1].val.val)
  /\ BalanceLines
       = <<[fmt |-> BalanceFmt,
            args |-> <<Wallets[1], [m |-> <<17, 11787, 59430, 54935>>, e |-> -29]>>]>>

====
